---- MODULE Spec2Model ----
(***************************************************************************)
(* lua-json: format (a JavaScript value -> Lua source text) and parse      *)
(* (Lua source text -> luaparse tree -> JavaScript value), src/index.js.   *)
(*                                                                         *)
(* A text is a sequence of one-character strings.  A JavaScript value is a *)
(* record tagged by `kind`; an object keeps its own properties as a        *)
(* sequence of <<key, value>> pairs in the order they were created.        *)
(***************************************************************************)
EXTENDS Integers, Sequences, FiniteSets, TLC

VARIABLES value, options, supplied, text, tree, result, pc, calls

vars == <<value, options, supplied, text, tree, result, pc, calls>>

(***************************************************************************)
(* Bounds of the model.                                                    *)
(***************************************************************************)
MaxLen == 2

MaxCalls == 2

MaxStrLen == 4

MaxFields == 3

(***************************************************************************)
(* Characters and texts.                                                   *)
(***************************************************************************)
BS == "\\"

LF == "\n"

CR == "\r"

SQ == "'"

DQ == "\""

DigitChars == <<"0", "1", "2", "3", "4", "5", "6", "7", "8", "9">>

Digits == {DigitChars[j] : j \in 1..10}

Letters == {"a", "b", "c", "d", "e", "f", "g", "h", "i", "j", "k", "l", "m",
            "n", "o", "p", "q", "r", "s", "t", "u", "v", "w", "x", "y", "z",
            "A", "B", "C", "D", "E", "F", "G", "H", "I", "J", "K", "L", "M",
            "N", "O", "P", "Q", "R", "S", "T", "U", "V", "W", "X", "Y", "Z"}

SeqsUpTo(S, n) == UNION {[1..k -> S] : k \in 0..n}

RECURSIVE Join(_, _)
Join(parts, sep) ==
  IF Len(parts) = 0 THEN <<>>
  ELSE IF Len(parts) = 1 THEN parts[1]
  ELSE parts[1] \o sep \o Join(Tail(parts), sep)

RECURSIVE Concat(_)
Concat(parts) == IF Len(parts) = 0 THEN <<>> ELSE parts[1] \o Concat(Tail(parts))

(***************************************************************************)
(* JavaScript values.                                                      *)
(***************************************************************************)
Undefined == [kind |-> "undefined"]

Null == [kind |-> "null"]

Func == [kind |-> "function"]

Bool(b) == [kind |-> "boolean", b |-> b]

Num(n) == [kind |-> "number", n |-> n]

Str(s) == [kind |-> "string", s |-> s]

Arr(items) == [kind |-> "array", items |-> items]

Obj(pairs) == [kind |-> "object", pairs |-> pairs]

Throw(msg) == [kind |-> "throw", error |-> msg]

IsThrow(v) == v.kind = "throw"

\* ToBoolean: undefined, null, false, 0 and '' are falsy.
Truthy(v) ==
  CASE v.kind \in {"undefined", "null"} -> FALSE
    [] v.kind = "boolean" -> v.b
    [] v.kind = "number" -> v.n # 0
    [] v.kind = "string" -> Len(v.s) > 0
    [] OTHER -> TRUE

RECURSIVE DigitsOf(_)
DigitsOf(n) ==
  IF n < 10 THEN <<DigitChars[n + 1]>>
  ELSE DigitsOf(n \div 10) \o <<DigitChars[(n % 10) + 1]>>

\* Number.prototype.toString on an integer.
NumToString(n) == IF n < 0 THEN <<"-">> \o DigitsOf(-n) ELSE DigitsOf(n)

\* StringOf, as a template literal or a property key converts a value.
RECURSIVE StringOf(_)
StringOf(v) ==
  CASE v.kind = "undefined" -> <<"u", "n", "d", "e", "f", "i", "n", "e", "d">>
    [] v.kind = "null" -> <<"n", "u", "l", "l">>
    [] v.kind = "boolean" ->
         IF v.b THEN <<"t", "r", "u", "e">> ELSE <<"f", "a", "l", "s", "e">>
    [] v.kind = "number" -> NumToString(v.n)
    [] v.kind = "string" -> v.s
    [] v.kind = "array" ->
         Join([j \in 1..Len(v.items) |->
                 IF v.items[j].kind \in {"undefined", "null"} THEN <<>>
                 ELSE StringOf(v.items[j])], <<",">>)
    [] v.kind = "object" ->
         <<"[", "o", "b", "j", "e", "c", "t", " ", "O", "b", "j", "e", "c", "t", "]">>

\* A canonical array index ("0", "7", "12"): such keys are enumerated first.
IsIndexKey(k) ==
  /\ Len(k) > 0
  /\ \A j \in 1..Len(k) : k[j] \in Digits
  /\ (k[1] = "0" => Len(k) = 1)

RECURSIVE KeyNum(_)
KeyNum(k) ==
  IF Len(k) = 0 THEN 0
  ELSE 10 * KeyNum(SubSeq(k, 1, Len(k) - 1))
       + (CHOOSE d \in 0..9 : DigitChars[d + 1] = k[Len(k)])

PairKeys(pairs) == [j \in 1..Len(pairs) |-> pairs[j][1]]

\* Own enumerable property names in the engine's order: integer keys
\* ascending, then the other keys in creation order.
OwnKeys(pairs) ==
  SortSeq(SelectSeq(PairKeys(pairs), IsIndexKey), LAMBDA a, b : KeyNum(a) < KeyNum(b))
    \o SelectSeq(PairKeys(pairs), LAMBDA k : ~IsIndexKey(k))

HasOwn(v, k) == v.kind = "object" /\ \E j \in 1..Len(v.pairs) : v.pairs[j][1] = k

\* value[k] for the own data properties the program reads.
Get(v, k) ==
  IF HasOwn(v, k)
  THEN v.pairs[CHOOSE j \in 1..Len(v.pairs) : v.pairs[j][1] = k][2]
  ELSE Undefined

\* obj[k] = x: an existing property keeps its place, a new one is appended.
Put(v, k, x) ==
  IF HasOwn(v, k)
  THEN Obj([j \in 1..Len(v.pairs) |->
              IF v.pairs[j][1] = k THEN <<k, x>> ELSE v.pairs[j]])
  ELSE Obj(Append(v.pairs, <<k, x>>))

(***************************************************************************)
(* lodash predicates used by the program.                                  *)
(***************************************************************************)
isNull(v) == v.kind = "null"

isBoolean(v) == v.kind = "boolean"

isNumber(v) == v.kind = "number"

isString(v) == v.kind = "string"

isArray(v) == v.kind = "array"

\* typeof 'object' or 'function', and not null.
isObject(v) == v.kind \in {"array", "object", "function"}

\* A function has no own enumerable property: it is empty.
isEmpty(v) ==
  CASE v.kind = "array" -> Len(v.items) = 0
    [] v.kind = "object" -> Len(v.pairs) = 0
    [] v.kind = "string" -> Len(v.s) = 0
    [] OTHER -> TRUE

keys(v) == IF v.kind = "object" THEN OwnKeys(v.pairs) ELSE <<>>

RECURSIVE repeat(_, _)
repeat(s, n) == IF n < 1 THEN <<>> ELSE s \o repeat(s, n - 1)

RECURSIVE ReplaceChar(_, _, _)
ReplaceChar(s, c, by) ==
  IF Len(s) = 0 THEN <<>>
  ELSE (IF s[1] = c THEN by ELSE <<s[1]>>) \o ReplaceChar(Tail(s), c, by)

(***************************************************************************)
(* format: src/index.js lines 4-61.                                        *)
(***************************************************************************)
formatLuaString(string, singleQuote) ==
  IF singleQuote
  THEN <<SQ>> \o ReplaceChar(string, SQ, <<BS, SQ>>) \o <<SQ>>
  ELSE <<DQ>> \o ReplaceChar(string, DQ, <<BS, DQ>>) \o <<DQ>>

\* /^[a-zA-Z_][a-zA-Z_0-9]*$/
IsIdentifier(string) ==
  /\ Len(string) > 0
  /\ string[1] \in Letters \cup {"_"}
  /\ \A j \in 1..Len(string) : string[j] \in Letters \cup Digits \cup {"_"}

\* The key test without its anchors: any identifier-shaped stretch matches.
formatLuaKeyUnanchored(string, singleQuote) ==
  IF \E j \in 1..Len(string) : string[j] \in Letters \cup {"_"} THEN string
  ELSE <<"[">> \o formatLuaString(string, singleQuote) \o <<"]">>

formatLuaKey(string, singleQuote) ==
  IF IsIdentifier(string) THEN string
  ELSE <<"[">> \o formatLuaString(string, singleQuote) \o <<"]">>

DefaultOptions ==
  Obj(<< <<<<"e", "o", "l">>, Str(<<LF>>)>>,
         <<<<"s", "i", "n", "g", "l", "e", "Q", "u", "o", "t", "e">>, Bool(TRUE)>>,
         <<<<"s", "p", "a", "c", "e", "s">>, Num(2)>> >>)

kEol == <<"e", "o", "l">>

kSingleQuote == <<"s", "i", "n", "g", "l", "e", "Q", "u", "o", "t", "e">>

kSpaces == <<"s", "p", "a", "c", "e", "s">>

\* Lines 8-12: the options object the call works on.  When the caller passed
\* an object, the three assignments are made on that very object.
formatOptions(opts) ==
  LET o0 == IF opts.kind = "undefined" THEN DefaultOptions
            ELSE IF ~Truthy(opts) THEN Obj(<<>>)
            ELSE opts
      o1 == Put(o0, kEol, IF isString(Get(o0, kEol)) THEN Get(o0, kEol) ELSE Str(<<LF>>))
      o2 == Put(o1, kSingleQuote,
                IF isBoolean(Get(o1, kSingleQuote)) THEN Get(o1, kSingleQuote)
                ELSE Bool(TRUE))
  IN  Put(o2, kSpaces,
          IF \/ isNull(Get(o2, kSpaces))
             \/ isNumber(Get(o2, kSpaces))
             \/ isString(Get(o2, kSpaces))
          THEN Get(o2, kSpaces) ELSE Num(2))

\* The first exception thrown while mapping over the parts, if any.
HasThrow(parts) == \E j \in 1..Len(parts) : IsThrow(parts[j])

FirstThrow(parts) ==
  parts[CHOOSE j \in 1..Len(parts) :
          IsThrow(parts[j]) /\ \A h \in 1..(j - 1) : ~IsThrow(parts[h])]

\* Lines 29-30 and 42-43.
indent(spaces, n) ==
  IF isNumber(spaces) THEN repeat(<<" ">>, spaces.n * n) ELSE repeat(spaces.s, n)

kType == <<"t", "y", "p", "e">>

kKey == <<"k", "e", "y">>

kValue == <<"v", "a", "l", "u", "e">>

tProperty == <<"p", "r", "o", "p", "e", "r", "t", "y">>

\* The record the program treats as a property entry (lines 49 and 96).
PropertyEntry(k, v) == Obj(<< <<kType, Str(tProperty)>>, <<kKey, k>>, <<kValue, v>> >>)

\* Lines 49-51, the branch taken when value.type === 'property'.
RECURSIVE rec(_, _, _)
propertyText(v, i, o) ==
  LET key == Get(v, kKey)
      val == rec(Get(v, kValue), i + 1, o)
  IN  IF IsThrow(val) THEN val
      ELSE Str(<<"[">>
               \o (IF isString(key) THEN <<SQ>> \o key.s \o <<SQ>> ELSE StringOf(key))
               \o <<"]", " ", "=", " ">> \o val.s)

\* Lines 24-36.
arrayText(v, i, o) ==
  LET eol == Get(o, kEol).s
      spaces == Get(o, kSpaces)
      parts == [j \in 1..Len(v.items) |-> rec(v.items[j], i + 1, o)]
  IN  IF isEmpty(v) THEN Str(<<"{", "}">>)
      ELSE IF HasThrow(parts) THEN FirstThrow(parts)
      ELSE IF Truthy(spaces)
      THEN Str(<<"{">> \o eol
               \o Join([j \in 1..Len(parts) |->
                          indent(spaces, i + 1) \o parts[j].s \o <<",">>], eol)
               \o eol \o indent(spaces, i) \o <<"}">>)
      ELSE Str(<<"{">>
               \o Concat([j \in 1..Len(parts) |-> parts[j].s \o <<",">>])
               \o <<"}">>)

\* Lines 37-56.
objectText(v, i, o) ==
  LET eol == Get(o, kEol).s
      spaces == Get(o, kSpaces)
      singleQuote == Get(o, kSingleQuote).b
      ks == keys(v)
      parts == [j \in 1..Len(ks) |-> rec(Get(v, ks[j]), i + 1, o)]
  IN  IF isEmpty(v) THEN Str(<<"{", "}">>)
      ELSE IF HasThrow(parts) THEN FirstThrow(parts)
      ELSE IF Truthy(spaces)
      THEN IF Get(v, kType) = Str(tProperty)
           THEN propertyText(v, i, o)
           ELSE Str(<<"{">> \o eol
                    \o Join([j \in 1..Len(ks) |->
                               indent(spaces, i + 1)
                               \o formatLuaKey(ks[j], singleQuote)
                               \o <<" ", "=", " ">> \o parts[j].s \o <<",">>], eol)
                    \o eol \o indent(spaces, i) \o <<"}">>)
      ELSE Str(<<"{">>
               \o Concat([j \in 1..Len(ks) |->
                            formatLuaKey(ks[j], singleQuote)
                            \o <<"=">> \o parts[j].s \o <<",">>])
               \o <<"}">>)

\* Lines 14-58.  The result is Str(text), or Throw when line 57 is reached.
rec(v, i, o) ==
  IF isNull(v) THEN Str(<<"n", "i", "l">>)
  ELSE IF isBoolean(v) \/ isNumber(v) THEN Str(StringOf(v))
  ELSE IF isString(v) THEN Str(formatLuaString(v.s, Get(o, kSingleQuote).b))
  ELSE IF isArray(v) THEN arrayText(v, i, o)
  ELSE IF isObject(v) THEN objectText(v, i, o)
  ELSE Throw(<<"c", "a", "n", "'", "t", " ", "f", "o", "r", "m", "a", "t">>)

\* Line 60.
format(v, opts) ==
  LET o == formatOptions(opts)
      r == rec(v, 0, o)
  IN  IF IsThrow(r) THEN r
      ELSE Str(<<"r", "e", "t", "u", "r", "n">>
               \o (IF Truthy(Get(o, kSpaces)) THEN <<" ">> ELSE <<>>)
               \o r.s)

(***************************************************************************)
(* escape: src/index.js lines 117-123.                                     *)
(***************************************************************************)
\* String.prototype.replace with a global pattern that is a literal run of
\* characters: leftmost matches, left to right, not overlapping.
RECURSIVE ReplaceAll(_, _, _)
ReplaceAll(s, pat, by) ==
  IF Len(s) < Len(pat) THEN s
  ELSE IF SubSeq(s, 1, Len(pat)) = pat
  THEN by \o ReplaceAll(SubSeq(s, Len(pat) + 1, Len(s)), pat, by)
  ELSE <<s[1]>> \o ReplaceAll(Tail(s), pat, by)

\* Lines 119-122 with a first pattern that matches a single backslash.
escapeTextEveryBackslash(s) ==
  ReplaceAll(
    ReplaceAll(
      ReplaceAll(
        ReplaceAll(s, <<BS>>, <<BS, BS>>),
        <<BS, "r">>, <<BS, BS, "r">>),
      <<BS, "n">>, <<BS, BS, "n">>),
    <<LF>>, <<BS, "n">>)

\* Lines 119-122 on the characters of a string.
escapeText(s) ==
  ReplaceAll(
    ReplaceAll(
      ReplaceAll(
        ReplaceAll(s, <<BS, BS>>, <<BS, BS, BS, BS>>),
        <<BS, "r">>, <<BS, BS, "r">>),
      <<BS, "n">>, <<BS, BS, "n">>),
    <<LF>>, <<BS, "n">>)

kReplace == <<"r", "e", "p", "l", "a", "c", "e">>

TypeError == Throw(<<"T", "y", "p", "e", "E", "r", "r", "o", "r">>)

\* value && value.replace ? value.replace(...)... : value.  A string has the
\* method; an object has `replace` when it owns a property of that name, and
\* calling one that is no function is a TypeError.
escape(v) ==
  IF isString(v)
  THEN (IF Truthy(v) THEN Str(escapeText(v.s)) ELSE v)
  ELSE IF Truthy(v) /\ Truthy(Get(v, kReplace)) THEN TypeError
  ELSE v

(***************************************************************************)
(* luaAstToJson: src/index.js lines 63-113.  A node is a record with the   *)
(* fields luaparse gives it.                                               *)
(***************************************************************************)
kInternal == <<"_", "_", "i", "n", "t", "e", "r", "n", "a", "l", "_", "t", "a", "b", "l", "e",
               "_", "k", "e", "y">>

CantParse == Throw(<<"c", "a", "n", "'", "t", " ", "p", "a", "r", "s", "e">>)

\* const { key, value } = x: a TypeError on null and undefined.
Destructurable(x) == x.kind \notin {"null", "undefined"}

\* fromPairs: result[key] = value for each pair in turn; a key is converted
\* to a property name.
RECURSIVE fromPairs(_)
fromPairs(pairs) ==
  IF Len(pairs) = 0 THEN Obj(<<>>)
  ELSE Put(fromPairs(SubSeq(pairs, 1, Len(pairs) - 1)),
           StringOf(pairs[Len(pairs)][1]), pairs[Len(pairs)][2])

\* Line 83 with any field in place of the first.
anyFieldHasKey(ast) ==
  \E j \in 1..Len(ast.fields) : ast.fields[j].type \in {"TableKey", "TableKeyString"}

\* Line 83: ast.fields[0] && ast.fields[0].key.
firstFieldHasKey(ast) ==
  Len(ast.fields) > 0 /\ ast.fields[1].type \in {"TableKey", "TableKeyString"}

RECURSIVE luaAstToJson(_)
\* Lines 84-90: the first field carries a key.
tableToObject(ast) ==
  LET rs == [j \in 1..Len(ast.fields) |-> luaAstToJson(ast.fields[j])]
      pairs == [j \in 1..Len(rs) |->
                  IF IsThrow(rs[j]) THEN rs[j]
                  ELSE IF ~Destructurable(rs[j]) THEN TypeError
                  ELSE IF IsThrow(escape(Get(rs[j], kValue)))
                  THEN escape(Get(rs[j], kValue))
                  ELSE Arr(<<Get(rs[j], kKey), escape(Get(rs[j], kValue))>>)]
      object == fromPairs([j \in 1..Len(pairs) |-> pairs[j].items])
  IN  IF HasThrow(pairs) THEN FirstThrow(pairs)
      ELSE IF isEmpty(object) THEN Arr(<<>>) ELSE object

\* Lines 92-97: the first field carries no key, or there is no field.
tableToArray(ast) ==
  LET rs == [j \in 1..Len(ast.fields) |-> luaAstToJson(ast.fields[j])]
      kept == SelectSeq(rs, LAMBDA r : ~isNull(r))
      items == [j \in 1..Len(kept) |->
                  IF Truthy(Get(kept[j], kInternal))
                  THEN (IF IsThrow(escape(Get(kept[j], kValue)))
                        THEN escape(Get(kept[j], kValue))
                        ELSE PropertyEntry(Get(kept[j], kKey), escape(Get(kept[j], kValue))))
                  ELSE escape(kept[j])]
  IN  IF HasThrow(rs) THEN FirstThrow(rs)
      ELSE IF HasThrow(items) THEN FirstThrow(items)
      ELSE Arr(items)

\* Lines 101-108.
statementValues(nodes) ==
  LET values == [j \in 1..Len(nodes) |-> luaAstToJson(nodes[j])]
  IN  IF HasThrow(values) THEN FirstThrow(values)
      ELSE IF Len(values) = 1 THEN values[1] ELSE Arr(values)

luaAstToJson(ast) ==
  IF ast.type \in {"NilLiteral", "BooleanLiteral", "NumericLiteral", "StringLiteral"}
  THEN ast.value
  ELSE IF ast.type = "UnaryExpression" /\ ast.operator = "-"
  THEN (LET a == luaAstToJson(ast.argument)
        IN  CASE IsThrow(a) -> a
              [] isNumber(a) -> Num(-a.n))
  ELSE IF ast.type = "Identifier" THEN Str(ast.name)
  ELSE IF ast.type \in {"TableKey", "TableKeyString"}
  THEN (LET k == luaAstToJson(ast.key)
            v == luaAstToJson(ast.value)
        IN  IF IsThrow(k) THEN k
            ELSE IF IsThrow(v) THEN v
            ELSE Obj(<< <<kInternal, Bool(TRUE)>>, <<kKey, k>>, <<kValue, v>> >>))
  ELSE IF ast.type = "TableValue" THEN luaAstToJson(ast.value)
  ELSE IF ast.type = "TableConstructorExpression"
  THEN (IF firstFieldHasKey(ast)
        THEN tableToObject(ast)
        ELSE tableToArray(ast))
  ELSE IF ast.type = "LocalStatement" THEN statementValues(ast.init)
  ELSE IF ast.type = "ReturnStatement" THEN statementValues(ast.arguments)
  ELSE IF ast.type = "Chunk"
  THEN (IF Len(ast.body) = 0 THEN TypeError ELSE luaAstToJson(ast.body[1]))
  ELSE CantParse

(***************************************************************************)
(* parseLua: the luaparse package, for the literal subset of Lua that      *)
(* format writes: a chunk `return <exp>`, where an expression is nil, true,*)
(* false, a decimal integer, a quoted string, a name, -<exp> or a table    *)
(* constructor.  Anything else is a syntax error.                          *)
(***************************************************************************)
TAB == "\t"

Keywords ==
  { <<"a", "n", "d">>, <<"b", "r", "e", "a", "k">>, <<"d", "o">>, <<"e", "l", "s", "e">>,
    <<"e", "l", "s", "e", "i", "f">>, <<"e", "n", "d">>, <<"f", "a", "l", "s", "e">>,
    <<"f", "o", "r">>, <<"f", "u", "n", "c", "t", "i", "o", "n">>, <<"i", "f">>,
    <<"i", "n">>, <<"l", "o", "c", "a", "l">>, <<"n", "i", "l">>, <<"n", "o", "t">>,
    <<"o", "r">>, <<"r", "e", "p", "e", "a", "t">>, <<"r", "e", "t", "u", "r", "n">>,
    <<"t", "h", "e", "n">>, <<"t", "r", "u", "e">>, <<"u", "n", "t", "i", "l">>,
    <<"w", "h", "i", "l", "e">> }

Punctuation == {"{", "}", "[", "]", "=", ",", ";", "-"}

ErrorToken == [t |-> "error"]

\* The length of the longest prefix of s made of characters of S.
RECURSIVE SpanLength(_, _)
SpanLength(s, S) == IF Len(s) > 0 /\ s[1] \in S THEN 1 + SpanLength(Tail(s), S) ELSE 0

\* The body of a quoted string, s starting after the opening quote q:
\* [ok, v (the characters read), n (how many characters of s were used)].
RECURSIVE ReadString(_, _)
ReadString(s, q) ==
  IF Len(s) = 0 \/ s[1] \in {LF, CR} THEN [ok |-> FALSE, v |-> <<>>, n |-> 0]
  ELSE IF s[1] = q THEN [ok |-> TRUE, v |-> <<>>, n |-> 1]
  ELSE IF s[1] = BS
  THEN (IF Len(s) < 2 \/ s[2] \notin {"n", "r", "t", BS, SQ, DQ}
        THEN [ok |-> FALSE, v |-> <<>>, n |-> 0]
        ELSE LET r == ReadString(SubSeq(s, 3, Len(s)), q)
                 c == CASE s[2] = "n" -> LF [] s[2] = "r" -> CR [] s[2] = "t" -> TAB
                        [] OTHER -> s[2]
             IN  [ok |-> r.ok, v |-> <<c>> \o r.v, n |-> r.n + 2])
  ELSE LET r == ReadString(Tail(s), q)
       IN  [ok |-> r.ok, v |-> <<s[1]>> \o r.v, n |-> r.n + 1]

\* The tokens of a text; an error token ends the sequence at the first
\* character that starts no token.
RECURSIVE Tokens(_)
Tokens(s) ==
  IF Len(s) = 0 THEN <<>>
  ELSE IF s[1] \in {" ", LF, CR, TAB} THEN Tokens(Tail(s))
  ELSE IF s[1] \in Letters \cup {"_"}
  THEN LET n == SpanLength(s, Letters \cup Digits \cup {"_"})
           w == SubSeq(s, 1, n)
       IN  <<[t |-> IF w \in Keywords THEN "keyword" ELSE "name", v |-> w]>>
             \o Tokens(SubSeq(s, n + 1, Len(s)))
  ELSE IF s[1] \in Digits
  THEN LET n == SpanLength(s, Digits)
       IN  IF n < Len(s) /\ s[n + 1] \in Letters \cup {"_", "."}
           THEN <<ErrorToken>>
           ELSE <<[t |-> "number", v |-> SubSeq(s, 1, n)]>>
                  \o Tokens(SubSeq(s, n + 1, Len(s)))
  ELSE IF s[1] \in {SQ, DQ}
  THEN LET r == ReadString(Tail(s), s[1])
       IN  IF ~r.ok THEN <<ErrorToken>>
           ELSE <<[t |-> "string", v |-> r.v]>> \o Tokens(SubSeq(s, r.n + 2, Len(s)))
  ELSE IF Len(s) > 1 /\ s[1] = "-" /\ s[2] = "-" THEN <<ErrorToken>>
  ELSE IF s[1] \in Punctuation
  THEN <<[t |-> "punct", v |-> <<s[1]>>]>> \o Tokens(Tail(s))
  ELSE <<ErrorToken>>

SyntaxError == [type |-> "SyntaxError"]

Failed == [node |-> SyntaxError, rest |-> <<>>]

IsPunct(ts, c) == Len(ts) > 0 /\ ts[1].t = "punct" /\ ts[1].v = <<c>>

IsKeyword(ts, w) == Len(ts) > 0 /\ ts[1].t = "keyword" /\ ts[1].v = w

\* Each parser gives [node, rest]: the node read and the tokens after it.
RECURSIVE ParseExp(_)
RECURSIVE ParseFields(_, _)
ParseField(ts) ==
  IF IsPunct(ts, "[")
  THEN LET k == ParseExp(Tail(ts))
       IN  IF k.node = SyntaxError \/ ~IsPunct(k.rest, "]") \/ ~IsPunct(Tail(k.rest), "=")
           THEN Failed
           ELSE LET v == ParseExp(Tail(Tail(k.rest)))
                IN  IF v.node = SyntaxError THEN Failed
                    ELSE [node |-> [type |-> "TableKey", key |-> k.node, value |-> v.node],
                          rest |-> v.rest]
  ELSE IF Len(ts) > 0 /\ ts[1].t = "name" /\ IsPunct(Tail(ts), "=")
  THEN LET v == ParseExp(Tail(Tail(ts)))
       IN  IF v.node = SyntaxError THEN Failed
           ELSE [node |-> [type |-> "TableKeyString",
                           key |-> [type |-> "Identifier", name |-> ts[1].v],
                           value |-> v.node],
                 rest |-> v.rest]
  ELSE LET v == ParseExp(ts)
       IN  IF v.node = SyntaxError THEN Failed
           ELSE [node |-> [type |-> "TableValue", value |-> v.node], rest |-> v.rest]

\* The fields of a table constructor after `{`, `fields` being those read.
ParseFields(ts, fields) ==
  IF IsPunct(ts, "}")
  THEN [node |-> [type |-> "TableConstructorExpression", fields |-> fields], rest |-> Tail(ts)]
  ELSE LET f == ParseField(ts)
       IN  IF f.node = SyntaxError THEN Failed
           ELSE IF IsPunct(f.rest, ",") \/ IsPunct(f.rest, ";")
           THEN ParseFields(Tail(f.rest), Append(fields, f.node))
           ELSE IF IsPunct(f.rest, "}")
           THEN ParseFields(f.rest, Append(fields, f.node))
           ELSE Failed

ParseExp(ts) ==
  IF Len(ts) = 0 THEN Failed
  ELSE IF IsKeyword(ts, <<"n", "i", "l">>)
  THEN [node |-> [type |-> "NilLiteral", value |-> Null], rest |-> Tail(ts)]
  ELSE IF IsKeyword(ts, <<"t", "r", "u", "e">>)
  THEN [node |-> [type |-> "BooleanLiteral", value |-> Bool(TRUE)], rest |-> Tail(ts)]
  ELSE IF IsKeyword(ts, <<"f", "a", "l", "s", "e">>)
  THEN [node |-> [type |-> "BooleanLiteral", value |-> Bool(FALSE)], rest |-> Tail(ts)]
  ELSE IF ts[1].t = "number"
  THEN [node |-> [type |-> "NumericLiteral", value |-> Num(KeyNum(ts[1].v))], rest |-> Tail(ts)]
  ELSE IF ts[1].t = "string"
  THEN [node |-> [type |-> "StringLiteral", value |-> Str(ts[1].v)], rest |-> Tail(ts)]
  ELSE IF ts[1].t = "name"
  THEN [node |-> [type |-> "Identifier", name |-> ts[1].v], rest |-> Tail(ts)]
  ELSE IF IsPunct(ts, "-")
  THEN LET a == ParseExp(Tail(ts))
       IN  IF a.node = SyntaxError THEN Failed
           ELSE [node |-> [type |-> "UnaryExpression", operator |-> "-", argument |-> a.node],
                 rest |-> a.rest]
  ELSE IF IsPunct(ts, "{") THEN ParseFields(Tail(ts), <<>>)
  ELSE Failed

\* The chunk of a text, or SyntaxError.
parseLua(s) ==
  LET ts == Tokens(s)
  IN  IF \E j \in 1..Len(ts) : ts[j] = ErrorToken THEN SyntaxError
      ELSE IF Len(ts) = 0 THEN [type |-> "Chunk", body |-> <<>>]
      ELSE IF ~IsKeyword(ts, <<"r", "e", "t", "u", "r", "n">>) THEN SyntaxError
      ELSE IF Len(ts) = 1
      THEN [type |-> "Chunk", body |-> <<[type |-> "ReturnStatement", arguments |-> <<>>]>>]
      ELSE LET e == ParseExp(Tail(ts))
           IN  IF e.node = SyntaxError \/ Len(e.rest) > 0 THEN SyntaxError
               ELSE [type |-> "Chunk",
                     body |-> <<[type |-> "ReturnStatement", arguments |-> <<e.node>>]>>]

(***************************************************************************)
(* The values and option records handed to format.                         *)
(***************************************************************************)
None == [kind |-> "none"]

Atoms == {Null, Bool(TRUE), Num(-1), Str(<<"a", SQ>>), Undefined, Func}

Nested ==
  { Arr(<<>>), Arr(<<Num(1)>>), Obj(<<>>), Obj(<< <<<<"a">>, Num(1)>> >>),
    PropertyEntry(Num(5), Str(<<"v">>)),
    PropertyEntry(Str(<<"k">>), Arr(<<Num(1)>>)) }

FormatArrays == {Arr(s) : s \in SeqsUpTo(Atoms \cup Nested, MaxLen)}

KeyPool == {<<"a">>, <<"a", " ", "b">>, <<"2">>, <<"1">>, kType}

MapValues == {Num(1), Str(tProperty), Obj(<< <<<<"b">>, Null>> >>)}

DistinctKeys(n) ==
  {ks \in [1..n -> KeyPool] : \A a, b \in 1..n : a # b => ks[a] # ks[b]}

FormatObjects ==
  UNION { {Obj([j \in 1..n |-> <<ks[j], vs[j]>>]) :
             ks \in DistinctKeys(n), vs \in [1..n -> MapValues]} : n \in 1..MaxLen }

FormatValues == Atoms \cup FormatArrays \cup FormatObjects

OptionPool ==
  { Undefined, Null, Obj(<<>>),
    Obj(<< <<kSpaces, Num(0)>> >>),
    Obj(<< <<kSpaces, Null>> >>),
    Obj(<< <<kSpaces, Str(<<"\t">>)>> >>),
    Obj(<< <<kSpaces, Bool(TRUE)>>, <<kSingleQuote, Bool(FALSE)>> >>),
    Obj(<< <<kEol, Str(<<CR, LF>>)>>, <<kSpaces, Num(1)>> >>),
    DefaultOptions }

(***************************************************************************)
(* Calls of format on one options record.                                  *)
(***************************************************************************)
Init ==
  /\ value \in FormatValues
  /\ options \in OptionPool
  /\ supplied = options
  /\ text = None
  /\ tree = None
  /\ result = None
  /\ pc = "format"
  /\ calls = 0

\* format(value, options): the caller's record, when it is an object, is the
\* object the assignments of lines 10-12 are made on.
Format ==
  /\ pc = "format"
  /\ calls < MaxCalls
  /\ text' = format(value, options)
  /\ options' = IF options.kind = "object" THEN formatOptions(options) ELSE options
  /\ calls' = calls + 1
  /\ UNCHANGED <<value, supplied, tree, result, pc>>

Next == Format

Spec == Init /\ [][Next]_vars

(***************************************************************************)
(* The renderings the specification describes, written from its sentences. *)
(***************************************************************************)
\* The options in force during a call, as the caller supplied them.
Effective == formatOptions(supplied)

Indented(o) == Truthy(Get(o, kSpaces))

\* The indentation unit: n spaces, or the given string.
Unit(o) ==
  IF isNumber(Get(o, kSpaces)) THEN repeat(<<" ">>, Get(o, kSpaces).n)
  ELSE Get(o, kSpaces).s

\* A brace block of rendered entries at depth d.
Block(entries, d, o) ==
  IF Indented(o)
  THEN <<"{">> \o Get(o, kEol).s
       \o Join([j \in 1..Len(entries) |->
                  repeat(Unit(o), d + 1) \o entries[j] \o <<",">>], Get(o, kEol).s)
       \o Get(o, kEol).s \o repeat(Unit(o), d) \o <<"}">>
  ELSE <<"{">> \o Concat([j \in 1..Len(entries) |-> entries[j] \o <<",">>]) \o <<"}">>

Return(o) == <<"r", "e", "t", "u", "r", "n">> \o (IF Indented(o) THEN <<" ">> ELSE <<>>)

IsPropertyEntry(v) == v.kind = "object" /\ Get(v, kType) = Str(tProperty)

RECURSIVE HasUnsupported(_)
HasUnsupported(v) ==
  CASE v.kind \in {"undefined", "function"} -> TRUE
    [] v.kind = "array" -> \E j \in 1..Len(v.items) : HasUnsupported(v.items[j])
    [] v.kind = "object" -> \E j \in 1..Len(v.pairs) : HasUnsupported(v.pairs[j][2])
    [] OTHER -> FALSE

\* A Sequence at depth d; a PropertyEntry is neither a Sequence nor a Mapping,
\* so its value is enclosed by as many of them as the entry itself.
RECURSIVE SequenceText(_, _, _)
SequenceText(v, d, o) ==
  IF isArray(v) /\ ~isEmpty(v)
  THEN Block([j \in 1..Len(v.items) |-> SequenceText(v.items[j], d + 1, o)], d, o)
  ELSE IF Indented(o) /\ IsPropertyEntry(v)
  THEN <<"[">>
       \o (IF isString(Get(v, kKey)) THEN <<SQ>> \o Get(v, kKey).s \o <<SQ>>
           ELSE StringOf(Get(v, kKey)))
       \o <<"]", " ", "=", " ">> \o SequenceText(Get(v, kValue), d, o)
  ELSE rec(v, d, o).s

\* A Mapping key: bare when identifier-shaped, else bracketed and quoted as a
\* Text is.
KeyText(k, o) ==
  IF IsIdentifier(k) THEN k ELSE <<"[">> \o rec(Str(k), 0, o).s \o <<"]">>

Assign(o) == IF Indented(o) THEN <<" ", "=", " ">> ELSE <<"=">>

\* A Mapping at depth d, its entries in own-key order or in insertion order.
KeyOrder(pairs, own) == IF own THEN OwnKeys(pairs) ELSE PairKeys(pairs)

RECURSIVE MappingText(_, _, _, _)
MappingText(v, d, o, own) ==
  IF v.kind = "object" /\ ~isEmpty(v) /\ ~(Indented(o) /\ IsPropertyEntry(v))
  THEN Block([j \in 1..Len(v.pairs) |->
                KeyText(KeyOrder(v.pairs, own)[j], o) \o Assign(o)
                \o MappingText(Get(v, KeyOrder(v.pairs, own)[j]), d + 1, o, own)], d, o)
  ELSE rec(v, d, o).s

(***************************************************************************)
(* C2: every non-empty Sequence at depth d is rendered as a brace block    *)
(* with one line per element at indentation unit x (d+1), closed at        *)
(* unit x d (or with no separators when spaces is falsy), after 'return '  *)
(* (or 'return').                                                          *)
(***************************************************************************)
C2_SequenceRendering ==
  (calls > 0 /\ isArray(value) /\ ~isEmpty(value) /\ ~IsThrow(text))
    => text = Str(Return(Effective) \o SequenceText(value, 0, Effective))

C4_PropertyEntryRendering ==
  (/\ calls > 0
   /\ isArray(value)
   /\ \E j \in 1..Len(value.items) : IsPropertyEntry(value.items[j])
   /\ ~IsThrow(text))
    => text = Str(Return(Effective)
                  \o Block([j \in 1..Len(value.items) |->
                              IF IsPropertyEntry(value.items[j])
                              THEN propertyText(value.items[j], 1, Effective).s
                              ELSE rec(value.items[j], 1, Effective).s],
                           0, Effective))

(***************************************************************************)
(* C5: a value that is, or holds at any depth, something that is none of   *)
(* the seven value kinds makes serialize fail and return no text.          *)
(***************************************************************************)
C5_UnsupportedValueThrows ==
  (calls > 0 /\ HasUnsupported(value)) => IsThrow(text)

(***************************************************************************)
(* C8: a call of serialize leaves the caller's options record as it was,   *)
(* and its output depends only on the value and the options as supplied.   *)
(***************************************************************************)
C8_OptionsRecordUnchanged ==
  calls > 0 => (options = supplied /\ text = format(value, supplied))

(***************************************************************************)
(* Trees handed to luaAstToJson.                                           *)
(***************************************************************************)
NilLiteral == [type |-> "NilLiteral", value |-> Null]

BooleanLiteral(b) == [type |-> "BooleanLiteral", value |-> Bool(b)]

NumericLiteral(n) == [type |-> "NumericLiteral", value |-> Num(n)]

StringLiteral(s) == [type |-> "StringLiteral", value |-> Str(s)]

Identifier(name) == [type |-> "Identifier", name |-> name]

UnaryExpression(op, arg) == [type |-> "UnaryExpression", operator |-> op, argument |-> arg]

TableKey(k, v) == [type |-> "TableKey", key |-> k, value |-> v]

TableKeyString(name, v) == [type |-> "TableKeyString", key |-> Identifier(name), value |-> v]

TableValue(v) == [type |-> "TableValue", value |-> v]

TableConstructorExpression(fields) == [type |-> "TableConstructorExpression", fields |-> fields]

CallExpression == [type |-> "CallExpression"]

LocalStatement(init) == [type |-> "LocalStatement", init |-> init]

ReturnStatement(arguments) == [type |-> "ReturnStatement", arguments |-> arguments]

Chunk(body) == [type |-> "Chunk", body |-> body]

FieldPool ==
  { TableValue(NumericLiteral(1)),
    TableValue(NilLiteral),
    TableValue(StringLiteral(<<"v", LF>>)),
    TableValue(TableConstructorExpression(<<TableKeyString(kReplace, NumericLiteral(1))>>)),
    TableValue(CallExpression),
    TableKey(NumericLiteral(5), StringLiteral(<<"v">>)),
    TableKey(StringLiteral(<<"a", " ", "b">>), BooleanLiteral(TRUE)),
    TableKeyString(<<"a">>, UnaryExpression("-", NumericLiteral(1))),
    TableKeyString(<<"a">>, TableConstructorExpression(<<TableValue(NumericLiteral(2))>>)) }

Tables == {TableConstructorExpression(fs) : fs \in SeqsUpTo(FieldPool, MaxFields)}

Trees ==
  {Chunk(<<ReturnStatement(<<t>>)>>) : t \in Tables}
    \cup { Chunk(<<LocalStatement(<<NumericLiteral(1), NumericLiteral(2)>>)>>),
           Chunk(<<ReturnStatement(<<UnaryExpression("not", BooleanLiteral(TRUE))>>)>>),
           Chunk(<<>>) }

(***************************************************************************)
(* Deserialization of a tree the caller holds.                             *)
(***************************************************************************)
InitParse ==
  /\ tree \in Trees
  /\ value = None
  /\ options = Undefined
  /\ supplied = Undefined
  /\ text = None
  /\ result = None
  /\ pc = "parsed"
  /\ calls = 0

Deserialize ==
  /\ pc = "parsed"
  /\ result' = luaAstToJson(tree)
  /\ pc' = "done"
  /\ UNCHANGED <<value, options, supplied, text, tree, calls>>

SpecParse == InitParse /\ [][Deserialize]_vars

(***************************************************************************)
(* Deserialization of a table holding one Text leaf.                       *)
(***************************************************************************)
EscapeChars == {BS, "n", "r", LF, "a"}

LeafTable(leaf) ==
  Chunk(<<ReturnStatement(<<TableConstructorExpression(<<TableValue(
    [type |-> "StringLiteral", value |-> leaf])>>)>>)>>)

InitEscape ==
  /\ value \in {Str(s) : s \in SeqsUpTo(EscapeChars, MaxStrLen)}
  /\ tree = LeafTable(value)
  /\ options = Undefined
  /\ supplied = Undefined
  /\ text = None
  /\ result = None
  /\ pc = "parsed"
  /\ calls = 0

SpecEscape == InitEscape /\ [][Deserialize]_vars

(***************************************************************************)
(* What the claims about the deserializer speak of.                        *)
(***************************************************************************)
\* The table constructor a tree returns.
TableOf(t) == t.body[1].arguments[1]

IsTableTree(t) ==
  /\ t.type = "Chunk"
  /\ Len(t.body) = 1
  /\ t.body[1].type = "ReturnStatement"
  /\ Len(t.body[1].arguments) = 1
  /\ t.body[1].arguments[1].type = "TableConstructorExpression"

Keyed(f) == f.type \in {"TableKey", "TableKeyString"}

KeyedFields(t) == SelectSeq(TableOf(t).fields, Keyed)

\* The PropertyEntry a keyed field stands for.
EntryOf(f) == PropertyEntry(luaAstToJson(f.key), escape(luaAstToJson(f.value)))

EntriesOf(t) == [j \in 1..Len(KeyedFields(t)) |-> EntryOf(KeyedFields(t)[j])]

Succeeded == pc = "done" /\ ~IsThrow(result)

C7_MappingFromEveryField ==
  (/\ pc = "done"
   /\ IsTableTree(tree)
   /\ Len(TableOf(tree).fields) > 0
   /\ Keyed(TableOf(tree).fields[1])
   /\ \A j \in 1..Len(TableOf(tree).fields) :
        TableOf(tree).fields[j].value.type \notin {"TableConstructorExpression", "CallExpression"})
    => /\ result.kind = "object"
       /\ {result.pairs[j][1] : j \in 1..Len(result.pairs)}
            = {StringOf(luaAstToJson(KeyedFields(tree)[j].key)) : j \in 1..Len(KeyedFields(tree))}
       /\ \A j \in 1..Len(result.pairs) :
            \E h \in 1..Len(KeyedFields(tree)) :
              /\ StringOf(luaAstToJson(KeyedFields(tree)[h].key)) = result.pairs[j][1]
              /\ escape(luaAstToJson(KeyedFields(tree)[h].value)) = result.pairs[j][2]

(***************************************************************************)
(* C10: the string-escaping step leaves a field value that is no Text      *)
(* unchanged and never fails on it.  Stated for constructors none of whose *)
(* fields carries a key: the result is the Sequence of the non-nil field   *)
(* values, the Texts escaped and the others exactly as deserialized.       *)
(***************************************************************************)
C10_NonTextPassesThrough ==
  (/\ pc = "done"
   /\ IsTableTree(tree)
   /\ \A j \in 1..Len(TableOf(tree).fields) :
        /\ ~Keyed(TableOf(tree).fields[j])
        /\ ~IsThrow(luaAstToJson(TableOf(tree).fields[j])))
    => result = Arr([j \in 1..Len(SelectSeq(TableOf(tree).fields,
                                             LAMBDA f : ~isNull(luaAstToJson(f)))) |->
                       LET x == luaAstToJson(SelectSeq(TableOf(tree).fields,
                                                       LAMBDA f : ~isNull(luaAstToJson(f)))[j])
                       IN  IF isString(x) THEN Str(escapeText(x.s)) ELSE x])

(***************************************************************************)
(* What the claims about the string-escaping step speak of.                *)
(***************************************************************************)
\* The Text leaf before and after the step.
Leaf == value.s

Escaped == result.items[1].s

Contains(s, pat) ==
  \E j \in 1..(Len(s) - Len(pat) + 1) : SubSeq(s, j, j + Len(pat) - 1) = pat

\* No newline character and no backslash-r or backslash-n pair.
Plain(s) == ~Contains(s, <<LF>>) /\ ~Contains(s, <<BS, "r">>) /\ ~Contains(s, <<BS, "n">>)

\* The length of the run of backslashes s starts with.
RECURSIVE RunLength(_)
RunLength(s) == IF Len(s) > 0 /\ s[1] = BS THEN 1 + RunLength(Tail(s)) ELSE 0

\* s with every backslash replaced by two.
EveryBackslashDoubled(s) == ReplaceChar(s, BS, <<BS, BS>>)

\* s with every pair of adjacent backslashes, taken from the left of each run
\* of backslashes, replaced by four, and a backslash left over at the end of
\* an odd run kept single.
RECURSIVE PairsDoubled(_)
PairsDoubled(s) ==
  IF Len(s) = 0 THEN <<>>
  ELSE IF s[1] # BS THEN <<s[1]>> \o PairsDoubled(Tail(s))
  ELSE repeat(<<BS>>, 4 * (RunLength(s) \div 2) + (RunLength(s) % 2))
       \o PairsDoubled(SubSeq(s, RunLength(s) + 1, Len(s)))

(***************************************************************************)
(* C9 as stated: on a Text leaf with no newline character and no           *)
(* backslash-r or backslash-n pair the step replaces every backslash by    *)
(* two; the result never contains a newline character.                     *)
(***************************************************************************)
C9_EveryBackslashDoubled ==
  (pc = "done" /\ Len(Leaf) > 0)
    => /\ Plain(Leaf) => Escaped = EveryBackslashDoubled(Leaf)
       /\ ~Contains(Escaped, <<LF>>)

(***************************************************************************)
(* C9 amended: the step first replaces every pair of adjacent backslashes  *)
(* (pairs taken left to right, not overlapping) by four backslashes and    *)
(* leaves an unpaired backslash single, so on a Text leaf with no newline  *)
(* character and no backslash-r or backslash-n pair the result is the leaf *)
(* with its backslash pairs doubled; every actual newline character        *)
(* becomes backslash and n, so the result never contains a newline         *)
(* character.                                                              *)
(***************************************************************************)
C9_BackslashPairsDoubled ==
  (pc = "done" /\ Len(Leaf) > 0)
    => /\ Plain(Leaf) => Escaped = PairsDoubled(Leaf)
       /\ ~Contains(Leaf, <<BS>>) => Escaped = ReplaceChar(Leaf, LF, <<BS, "n">>)
       /\ ~Contains(Escaped, <<LF>>)

C9_Witness ==
  /\ pc = "done"
  /\ Leaf = <<BS, BS, "a", BS>>
  /\ Escaped = <<BS, BS, BS, BS, "a", BS>>

(***************************************************************************)
(* A round trip: format with the default options, then parse.              *)
(***************************************************************************)
\* Line 115.
parse(s) ==
  IF parseLua(s) = SyntaxError
  THEN Throw(<<"S", "y", "n", "t", "a", "x", "E", "r", "r", "o", "r">>)
  ELSE luaAstToJson(parseLua(s))

RoundLeaves ==
  {Null, Bool(TRUE), Bool(FALSE), Num(-1), Num(12), Str(<<"a", SQ>>), Str(<<"a", BS>>)}

RoundNested ==
  { Arr(<<>>), Arr(<<Num(1)>>), Obj(<<>>),
    Obj(<< <<<<"a">>, Num(1)>> >>),
    Obj(<< <<kReplace, Num(1)>> >>),
    Obj(<< <<<<"e", "n", "d">>, Num(1)>> >>) }

RoundKeys == {<<"a">>, <<"a", " ", "b">>, <<"1">>}

RoundObjects ==
  UNION { {Obj([j \in 1..n |-> <<ks[j], vs[j]>>]) :
             ks \in {k \in [1..n -> RoundKeys] : \A a, b \in 1..n : a # b => k[a] # k[b]},
             vs \in [1..n -> {Null, Num(-1), Str(<<"a", SQ>>), Arr(<<Num(1)>>)}]} :
          n \in 1..MaxLen }

RoundValues ==
  RoundLeaves \cup RoundObjects
    \cup {Arr(s) : s \in SeqsUpTo(RoundLeaves \cup RoundNested, MaxLen)}

InitRound ==
  /\ value \in RoundValues
  /\ options = Undefined
  /\ supplied = Undefined
  /\ text = None
  /\ tree = None
  /\ result = None
  /\ pc = "serialize"
  /\ calls = 0

Serialize ==
  /\ pc = "serialize"
  /\ text' = format(value, options)
  /\ pc' = "parse"
  /\ UNCHANGED <<value, options, supplied, tree, result, calls>>

Parse ==
  /\ pc = "parse"
  /\ isString(text)
  /\ tree' = parseLua(text.s)
  /\ result' = parse(text.s)
  /\ pc' = "done"
  /\ UNCHANGED <<value, options, supplied, text, calls>>

NextRound == Serialize \/ Parse

SpecRound == InitRound /\ [][NextRound]_vars

\* Equal in Sequence/Mapping shape and in the Nil, Boolean and Number leaves.
RECURSIVE ShapeEqual(_, _)
ShapeEqual(v, r) ==
  CASE v.kind = "string" -> r.kind = "string"
    [] v.kind = "array" ->
         /\ r.kind = "array"
         /\ Len(r.items) = Len(v.items)
         /\ \A j \in 1..Len(v.items) : ShapeEqual(v.items[j], r.items[j])
    [] v.kind = "object" ->
         /\ r.kind = "object"
         /\ OwnKeys(r.pairs) = OwnKeys(v.pairs)
         /\ \A j \in 1..Len(v.pairs) : ShapeEqual(v.pairs[j][2], Get(r, v.pairs[j][1]))
    [] OTHER -> r = v

RECURSIVE HasNilElement(_)
HasNilElement(v) ==
  CASE v.kind = "array" ->
         \E j \in 1..Len(v.items) : isNull(v.items[j]) \/ HasNilElement(v.items[j])
    [] v.kind = "object" -> \E j \in 1..Len(v.pairs) : HasNilElement(v.pairs[j][2])
    [] OTHER -> FALSE

RECURSIVE HasEmptyMapping(_)
HasEmptyMapping(v) ==
  CASE v.kind = "array" -> \E j \in 1..Len(v.items) : HasEmptyMapping(v.items[j])
    [] v.kind = "object" ->
         Len(v.pairs) = 0 \/ \E j \in 1..Len(v.pairs) : HasEmptyMapping(v.pairs[j][2])
    [] OTHER -> FALSE

(***************************************************************************)
(* C1: for every value built from Nil, Boolean, Number, Text, Sequence and *)
(* Mapping, parsing the text serialize writes yields a value equal to it   *)
(* in shape and in its Nil, Boolean and Number leaves.  Stated for values  *)
(* with no Nil element in a Sequence and no empty Mapping, which the       *)
(* deserializer drops and turns into an empty Sequence.                    *)
(***************************************************************************)
C1_RoundTrip ==
  (pc = "done" /\ ~HasNilElement(value) /\ ~HasEmptyMapping(value))
    => ShapeEqual(value, result)

====
